---- MODULE Spec2Model ----
(***************************************************************************)
(* Model of ReflectTool.doWork (src/lib/tools/reflect/index.ts).           *)
(*                                                                         *)
(* A JavaScript string is modelled as a sequence of atoms whose            *)
(* concatenation is the string: each of the eight tags the regular         *)
(* expressions look for is one atom, every other atom is one character.    *)
(* A run is one call of doWork, split at the points where the code loops.  *)
(* The catch clause (lines 106-108) is not modelled: RegExp.exec, match,   *)
(* trim and push do not throw on a string.                                 *)
(***************************************************************************)
EXTENDS Integers, Sequences, FiniteSets, TLC

VARIABLES
    newTasksParam,   \* parameters.new_tasks, a JavaScript value
    src,             \* how the payload was written: its segments and elements
    pc,              \* position in doWork: "idle", "tasks", "subs", "done"
    taskLastIndex,   \* taskRegex.lastIndex
    examined,        \* number of <task> blocks taskRegex.exec has returned
    taskContent,     \* taskMatch[1]
    taskIndex,
    description,
    reasoning,
    subLastIndex,    \* subProblemRegex.lastIndex
    subProblems,
    subIndex,
    newTasks,
    result           \* the ExecutionResult doWork resolves to

vars == <<newTasksParam, src, pc, taskLastIndex, examined, taskContent,
          taskIndex, description, reasoning, subLastIndex, subProblems,
          subIndex, newTasks, result>>

(***************************************************************************)
(* Bounds of the explored inputs.                                          *)
(***************************************************************************)
\* most <task>...</task> segments written into one payload
MaxTasks == 2
\* most elements written into one payload, all segments together
MaxElems == 4
\* Date.now() returns a value in 0..MaxTick
MaxTick == 1

(***************************************************************************)
(* Atoms of strings.                                                       *)
(***************************************************************************)
TaskOpen  == "<task>"
TaskClose == "</task>"
DescOpen  == "<description>"
DescClose == "</description>"
ReasOpen  == "<reasoning>"
ReasClose == "</reasoning>"
SubOpen   == "<sub_problem>"
SubClose  == "</sub_problem>"

\* characters String.prototype.trim removes (those the inputs use)
WhiteSpace == {" ", "\n", "\t"}

Placeholder == <<"Generated by reflection">>

RECURSIVE Concat(_)
Concat(ss) == IF ss = <<>> THEN <<>> ELSE Head(ss) \o Concat(Tail(ss))

RECURSIVE Sum(_)
Sum(ns) == IF ns = <<>> THEN 0 ELSE Head(ns) + Sum(Tail(ns))

Min(S) == CHOOSE x \in S : \A y \in S : x <= y

(***************************************************************************)
(* JavaScript values of parameters.new_tasks.                              *)
(***************************************************************************)
StringValue(s) == [type |-> "string", num |-> 0, str |-> s]

\* undefined (the key is absent), null, {}, 0, 42, false, true
NonStringValues ==
    { [type |-> "undefined", num |-> 0, str |-> <<>>],
      [type |-> "object",    num |-> 0, str |-> <<>>],
      [type |-> "object",    num |-> 1, str |-> <<>>],
      [type |-> "number",    num |-> 0, str |-> <<>>],
      [type |-> "number",    num |-> 42, str |-> <<>>],
      [type |-> "boolean",   num |-> 0, str |-> <<>>],
      [type |-> "boolean",   num |-> 1, str |-> <<>>] }

\* typeof v
TypeOf(v) == v.type

\* !!v : the empty string, 0, false, null and undefined are falsy
Truthy(v) ==
    IF v.type = "string" THEN v.str # <<>>
    ELSE IF v.type = "undefined" THEN FALSE
    ELSE v.num # 0

(***************************************************************************)
(* The payloads explored: segments of elements, written out as a string.   *)
(***************************************************************************)
Kinds == {"description", "reasoning", "sub_problem", "task_close"}

\* texts put inside the elements, by position of the element in the payload
Texts == << <<" ", "a", " ">>,
            <<"b">>,
            <<"\n", "\t">>,
            <<"a", " ", "b", "\n">>,
            <<>>,
            <<"\t", "c">> >>

TextAt(k) == Texts[((k - 1) % Len(Texts)) + 1]

RenderElem(e) ==
    CASE e.kind = "description" -> <<DescOpen>> \o e.text \o <<DescClose>>
      [] e.kind = "reasoning"   -> <<ReasOpen>> \o e.text \o <<ReasClose>>
      [] e.kind = "sub_problem" -> <<SubOpen>> \o e.text \o <<SubClose>>
      [] e.kind = "task_close"  -> <<TaskClose>>

RenderSeg(g) ==
    LET body == Concat([j \in 1..Len(g.elems) |-> RenderElem(g.elems[j])])
    IN  CASE g.wrap = "task" -> <<TaskOpen>> \o body \o <<TaskClose>>
          [] g.wrap = "open" -> <<TaskOpen>> \o body
          [] g.wrap = "none" -> body

Render(segs) == Concat([i \in 1..Len(segs) |-> RenderSeg(segs[i])])

\* sizes of the segments of a payload of n elements
Shapes(n) ==
    { sz \in UNION { [1..m -> 0..n] : m \in 0..MaxTasks } : Sum(sz) = n }

Offset(sz, i) == Sum(SubSeq(sz, 1, i - 1))

Segments(ks, sz, wrap) ==
    [i \in 1..Len(sz) |->
        [wrap  |-> wrap,
         elems |-> [j \in 1..sz[i] |->
                      [kind |-> ks[Offset(sz, i) + j],
                       text |-> TextAt(Offset(sz, i) + j)]]]]

\* src is a payload of <task>...</task> segments, or one segment that is a
\* <task> never closed, or one segment of elements outside any <task>
IsSource(s) ==
    \E n \in 0..MaxElems : \E ks \in [1..n -> Kinds] :
        \/ \E sz \in Shapes(n) : s = Segments(ks, sz, "task")
        \/ s = Segments(ks, <<n>>, "open")
        \/ n > 0 /\ s = Segments(ks, <<n>>, "none")

(***************************************************************************)
(* RegExp, String.prototype.trim, Date.now and the result envelope.        *)
(***************************************************************************)
NoMatch == [found |-> FALSE, content |-> <<>>, lastIndex |-> 0]

\* RegexExec with the greedy [\s\S]* in place of the lazy [\s\S]*?
RegexExecGreedy(s, open, close, lastIndex) ==
    LET starts == { i \in (lastIndex + 1)..Len(s) :
                      /\ s[i] = open
                      /\ \E j \in (i + 1)..Len(s) : s[j] = close }
    IN  IF starts = {} THEN NoMatch
        ELSE LET i == Min(starts)
                 j == CHOOSE k \in (i + 1)..Len(s) :
                        /\ s[k] = close
                        /\ \A m \in (k + 1)..Len(s) : s[m] # close
             IN  [found |-> TRUE, content |-> SubSeq(s, i + 1, j - 1),
                  lastIndex |-> j]

\* /open([\s\S]*?)close/ searched in s from lastIndex: the leftmost open that
\* some close follows, closed lazily by the first close after it; a failed
\* search leaves lastIndex at 0.
RegexExec(s, open, close, lastIndex) ==
    LET starts == { i \in (lastIndex + 1)..Len(s) :
                      /\ s[i] = open
                      /\ \E j \in (i + 1)..Len(s) : s[j] = close }
    IN  IF starts = {} THEN NoMatch
        ELSE LET i == Min(starts)
                 j == Min({ k \in (i + 1)..Len(s) : s[k] = close })
             IN  [found |-> TRUE, content |-> SubSeq(s, i + 1, j - 1),
                  lastIndex |-> j]

RECURSIVE TrimStart(_)
TrimStart(s) ==
    IF s # <<>> /\ Head(s) \in WhiteSpace THEN TrimStart(Tail(s)) ELSE s

RECURSIVE TrimEnd(_)
TrimEnd(s) ==
    IF s # <<>> /\ s[Len(s)] \in WhiteSpace
    THEN TrimEnd(SubSeq(s, 1, Len(s) - 1)) ELSE s

\* Trim that leaves the trailing whitespace in place
TrimLeadingOnly(s) == TrimStart(s)

Trim(s) == TrimEnd(TrimStart(s))

\* the values Date.now() may return during the call
Times == 0..MaxTick

NoResult ==
    [returned |-> FALSE, success |-> FALSE, error |-> "",
     new_tasks |-> <<>>, tasks_count |-> 0]

CreateFailureResult(msg) ==
    [returned |-> TRUE, success |-> FALSE, error |-> msg,
     new_tasks |-> <<>>, tasks_count |-> 0]

CreateSuccessResult(tasks, count) ==
    [returned |-> TRUE, success |-> TRUE, error |-> "",
     new_tasks |-> tasks, tasks_count |-> count]

(***************************************************************************)
(* The pieces of doWork.                                                   *)
(***************************************************************************)
ParamMsg ==
    "REFLECT tool requires 'new_tasks' parameter as a string with XML format."

DescMsg(n) ==
    "REFLECT tool: Task " \o ToString(n) \o " must have a <description> element."

SubMsg(n) ==
    "REFLECT tool: Task " \o ToString(n)
        \o " must have at least one <sub_problem> element."

NoTaskMsg ==
    "REFLECT tool: No valid <task> elements found in new_tasks parameter."

\* ParamRejected without the !newTasksParam test
ParamRejectedTypeOnly(v) == TypeOf(v) # "string"

\* !newTasksParam || typeof newTasksParam !== "string"
ParamRejected(v) == ~Truthy(v) \/ TypeOf(v) # "string"

\* SubId without the task index
SubIdNoTask(t, ti, si) ==
    "reflect_sub_" \o ToString(t) \o "_" \o ToString(si)

SubId(t, ti, si) ==
    "reflect_sub_" \o ToString(t) \o "_" \o ToString(ti) \o "_" \o ToString(si)

TaskId(t, ti) == "reflect_task_" \o ToString(t) \o "_" \o ToString(ti)

\* reasoningMatch ? reasoningMatch[1].trim() : "Generated by reflection"
ReasoningOf(content) ==
    LET reasoningMatch == RegexExec(content, ReasOpen, ReasClose, 0)
    IN  IF reasoningMatch.found THEN Trim(reasoningMatch.content)
        ELSE Placeholder

\* SubProblemEntry that copies the task's reasoning
SubProblemEntryInherit(t, ti, si, text) ==
    [id |-> SubId(t, ti, si), description |-> Trim(text),
     reasoning |-> reasoning]

SubProblemEntry(t, ti, si, text) ==
    [id |-> SubId(t, ti, si), description |-> Trim(text),
     reasoning |-> Placeholder]

TaskEntry(t, ti, desc, reas, subs) ==
    [id |-> TaskId(t, ti), description |-> desc, reasoning |-> reas,
     sub_problems |-> subs]

\* FinalResult without the test for an empty list
FinalResultUnchecked(tasks) == CreateSuccessResult(tasks, Len(tasks))

\* lines 97-104: the result once every block was accepted
FinalResult(tasks) ==
    IF Len(tasks) = 0
    THEN CreateFailureResult(NoTaskMsg)
    ELSE CreateSuccessResult(tasks, Len(tasks))

\* OnMissingDescription naming the block by its 0-based index
OnMissingDescriptionZeroBased ==
    /\ result' = CreateFailureResult(DescMsg(taskIndex))
    /\ pc' = "done"
    /\ UNCHANGED <<description, reasoning, subLastIndex, subProblems,
                   subIndex, taskIndex, newTasks>>

\* what doWork does with a block that has no <description>
OnMissingDescription ==
    /\ result' = CreateFailureResult(DescMsg(taskIndex + 1))
    /\ pc' = "done"
    /\ UNCHANGED <<description, reasoning, subLastIndex, subProblems,
                   subIndex, taskIndex, newTasks>>

\* OnNoSubProblems that drops the block and goes on with the next
OnNoSubProblemsSkip ==
    /\ pc' = "tasks"
    /\ UNCHANGED <<result, newTasks, taskIndex>>

\* OnNoSubProblems naming the block by its 0-based index
OnNoSubProblemsZeroBased ==
    /\ result' = CreateFailureResult(SubMsg(taskIndex))
    /\ pc' = "done"
    /\ UNCHANGED <<newTasks, taskIndex>>

\* OnNoSubProblems that keeps the block, with no sub-problem
OnNoSubProblemsKeep ==
    /\ \E t \in Times :
         newTasks' = Append(newTasks,
             TaskEntry(t, taskIndex, description, reasoning, subProblems))
    /\ taskIndex' = taskIndex + 1
    /\ pc' = "tasks"
    /\ UNCHANGED result

\* what doWork does with a block that has no <sub_problem>
OnNoSubProblems ==
    /\ result' = CreateFailureResult(SubMsg(taskIndex + 1))
    /\ pc' = "done"
    /\ UNCHANGED <<newTasks, taskIndex>>

(***************************************************************************)
(* The state machine.                                                      *)
(***************************************************************************)
Init ==
    /\ \/ /\ IsSource(src)
          /\ newTasksParam = StringValue(Render(src))
       \/ /\ src = <<>>
          /\ newTasksParam \in NonStringValues
    /\ pc = "idle"
    /\ taskLastIndex = 0
    /\ examined = 0
    /\ taskContent = <<>>
    /\ taskIndex = 0
    /\ description = <<>>
    /\ reasoning = <<>>
    /\ subLastIndex = 0
    /\ subProblems = <<>>
    /\ subIndex = 0
    /\ newTasks = <<>>
    /\ result = NoResult

\* lines 38-51: the parameter check, and the set-up of the scan
Call ==
    /\ pc = "idle"
    /\ IF ParamRejected(newTasksParam)
       THEN /\ result' = CreateFailureResult(ParamMsg)
            /\ pc' = "done"
       ELSE /\ pc' = "tasks"
            /\ UNCHANGED result
    /\ UNCHANGED <<newTasksParam, src, taskLastIndex, examined, taskContent,
                   taskIndex, description, reasoning, subLastIndex,
                   subProblems, subIndex, newTasks>>

\* lines 53-71: taskRegex.exec finds a block; its description and reasoning
NextTask ==
    /\ pc = "tasks"
    /\ LET taskMatch ==
               RegexExec(newTasksParam.str, TaskOpen, TaskClose, taskLastIndex)
       IN  /\ taskMatch.found
           /\ taskLastIndex' = taskMatch.lastIndex
           /\ examined' = examined + 1
           /\ taskContent' = taskMatch.content
           /\ LET descMatch ==
                      RegexExec(taskMatch.content, DescOpen, DescClose, 0)
              IN  IF ~descMatch.found
                  THEN OnMissingDescription
                  ELSE /\ description' = Trim(descMatch.content)
                       /\ reasoning' = ReasoningOf(taskMatch.content)
                       /\ subLastIndex' = 0
                       /\ subProblems' = <<>>
                       /\ subIndex' = 0
                       /\ pc' = "subs"
                       /\ UNCHANGED <<taskIndex, newTasks, result>>
    /\ UNCHANGED <<newTasksParam, src>>

\* lines 73-81: subProblemRegex.exec finds a <sub_problem>
NextSub ==
    /\ pc = "subs"
    /\ LET subProblemMatch ==
               RegexExec(taskContent, SubOpen, SubClose, subLastIndex)
       IN  /\ subProblemMatch.found
           /\ subLastIndex' = subProblemMatch.lastIndex
           /\ \E t \in Times :
                subProblems' = Append(subProblems,
                    SubProblemEntry(t, taskIndex, subIndex,
                                    subProblemMatch.content))
           /\ subIndex' = subIndex + 1
    /\ UNCHANGED <<newTasksParam, src, pc, taskLastIndex, examined,
                   taskContent, taskIndex, description, reasoning, newTasks,
                   result>>

\* lines 73, 83-94: subProblemRegex.exec finds no more; the task is kept or
\* the call fails
EndSubs ==
    /\ pc = "subs"
    /\ ~RegexExec(taskContent, SubOpen, SubClose, subLastIndex).found
    /\ subLastIndex' = 0
    /\ IF Len(subProblems) = 0
       THEN OnNoSubProblems
       ELSE /\ \E t \in Times :
                 newTasks' = Append(newTasks,
                     TaskEntry(t, taskIndex, description, reasoning,
                               subProblems))
            /\ taskIndex' = taskIndex + 1
            /\ pc' = "tasks"
            /\ UNCHANGED result
    /\ UNCHANGED <<newTasksParam, src, taskLastIndex, examined, taskContent,
                   description, reasoning, subProblems, subIndex>>

\* lines 53, 97-104: taskRegex.exec finds no more; the call returns
EndTasks ==
    /\ pc = "tasks"
    /\ ~RegexExec(newTasksParam.str, TaskOpen, TaskClose, taskLastIndex).found
    /\ taskLastIndex' = 0
    /\ result' = FinalResult(newTasks)
    /\ pc' = "done"
    /\ UNCHANGED <<newTasksParam, src, examined, taskContent, taskIndex,
                   description, reasoning, subLastIndex, subProblems,
                   subIndex, newTasks>>

Next == Call \/ NextTask \/ NextSub \/ EndSubs \/ EndTasks

Spec == Init /\ [][Next]_vars

(***************************************************************************)
(* What the properties below read off the payload, stated on the string    *)
(* itself and not through the steps of doWork.                             *)
(***************************************************************************)
Payload == newTasksParam.str

IsString == newTasksParam.type = "string"

Returned == pc = "done"

\* least index >= from at which s holds atom a, 0 when there is none
RECURSIVE FirstAt(_, _, _)
FirstAt(s, a, from) ==
    IF from > Len(s) THEN 0
    ELSE IF s[from] = a THEN from
    ELSE FirstAt(s, a, from + 1)

\* contents of the open...close stretches of s, left to right, each closed by
\* the first close after its open, none overlapping
RECURSIVE ElementsFrom(_, _, _, _)
ElementsFrom(s, open, close, from) ==
    LET o == FirstAt(s, open, from)
        c == IF o = 0 THEN 0 ELSE FirstAt(s, close, o + 1)
    IN  IF o = 0 \/ c = 0 THEN <<>>
        ELSE <<SubSeq(s, o + 1, c - 1)>> \o ElementsFrom(s, open, close, c + 1)

Elements(s, open, close) == ElementsFrom(s, open, close, 1)

\* the matched <task> blocks of the payload
Blocks == Elements(Payload, TaskOpen, TaskClose)

Descriptions(b) == Elements(b, DescOpen, DescClose)
Reasonings(b)   == Elements(b, ReasOpen, ReasClose)
SubProblemsIn(b) == Elements(b, SubOpen, SubClose)

ValidBlock(b) == Descriptions(b) # <<>> /\ SubProblemsIn(b) # <<>>

InvalidIn(bs) == { i \in 1..Len(bs) : ~ValidBlock(bs[i]) }

\* the positions of the matched blocks that are invalid
InvalidAt == InvalidIn(Blocks)

\* block n of bs is invalid and every block before it is valid
FirstInvalid(bs, n) ==
    /\ ~ValidBlock(bs[n])
    /\ \A k \in 1..(n - 1) : ValidBlock(bs[k])

IsWhite(s) == \A i \in 1..Len(s) : s[i] \in WhiteSpace

\* out is raw with its surrounding whitespace removed and nothing else
IsStripOf(out, raw) ==
    /\ \E i \in 0..Len(raw) : \E j \in 0..(Len(raw) - i) :
          /\ IsWhite(SubSeq(raw, 1, i))
          /\ IsWhite(SubSeq(raw, Len(raw) - j + 1, Len(raw)))
          /\ out = SubSeq(raw, i + 1, Len(raw) - j)
    /\ out # <<>> => out[1] \notin WhiteSpace /\ out[Len(out)] \notin WhiteSpace

\* the elements of one kind written into a segment, in order
ElemsOfKind(g, kind) == SelectSeq(g.elems, LAMBDA e : e.kind = kind)

\* a payload written as N >= 1 <task> blocks, each with a <description> and
\* at least one <sub_problem>, and no tag inside another
WellFormedSource ==
    /\ IsString
    /\ Len(src) >= 1
    /\ \A i \in 1..Len(src) :
          /\ src[i].wrap = "task"
          /\ ElemsOfKind(src[i], "task_close") = <<>>
          /\ ElemsOfKind(src[i], "description") # <<>>
          /\ ElemsOfKind(src[i], "sub_problem") # <<>>

\* every id of the result, tasks first
RECURSIVE SubIdsOf(_)
SubIdsOf(tasks) ==
    IF tasks = <<>> THEN <<>>
    ELSE [j \in 1..Len(Head(tasks).sub_problems) |->
             Head(tasks).sub_problems[j].id] \o SubIdsOf(Tail(tasks))

AllIds(tasks) == [i \in 1..Len(tasks) |-> tasks[i].id] \o SubIdsOf(tasks)

ParseMessages ==
    {NoTaskMsg} \cup { DescMsg(n) : n \in 1..(MaxElems + MaxTasks + 1) }
                \cup { SubMsg(n) : n \in 1..(MaxElems + MaxTasks + 1) }

(***************************************************************************)
(* The properties.                                                         *)
(***************************************************************************)

\* C1: a payload of N >= 1 well-formed <task> blocks, the i-th with M_i >= 1
\* <sub_problem> tags, yields success with exactly N task records in the order
\* of the blocks, the i-th with exactly M_i sub-problem records in the order
\* of its tags, each carrying the (trimmed) text of its own tag.
C1_WellFormedParses ==
    (Returned /\ WellFormedSource) =>
        /\ result.success
        /\ Len(result.new_tasks) = Len(src)
        /\ \A i \in 1..Len(src) : i <= Len(result.new_tasks) =>
              LET task == result.new_tasks[i]
                  subs == ElemsOfKind(src[i], "sub_problem")
                  desc == ElemsOfKind(src[i], "description")[1]
              IN  /\ IsStripOf(task.description, desc.text)
                  /\ Len(task.sub_problems) = Len(subs)
                  /\ \A j \in 1..Len(subs) : j <= Len(task.sub_problems) =>
                        IsStripOf(task.sub_problems[j].description,
                                  subs[j].text)

C1_Witness ==
    /\ Returned /\ WellFormedSource /\ result.success
    /\ Len(src) = 2
    /\ Len(result.new_tasks) = 2
    /\ result.new_tasks[1].description # result.new_tasks[2].description
    /\ result.new_tasks[1].sub_problems[1].description
          # result.new_tasks[2].sub_problems[1].description

\* C2: no partial success: when at least one matched <task> block lacks a
\* <description> or has no <sub_problem>, the call fails and returns no task
\* record, whatever the other blocks are.
C2_NoPartialSuccess ==
    (Returned /\ IsString /\ InvalidAt # {}) =>
        /\ ~result.success
        /\ result.new_tasks = <<>>
        /\ result.tasks_count = 0

C2_Witness ==
    /\ Returned /\ IsString
    /\ Len(Blocks) = 2
    /\ InvalidAt = {2}
    /\ Len(newTasks) = 1
    /\ ~result.success /\ result.new_tasks = <<>>

C5_Original ==
    (Returned /\ IsString /\ Len(Blocks) = 2 /\ 2 \in InvalidAt
              /\ SubProblemsIn(Blocks[2]) = <<>>) =>
        ~result.success /\ result.error \in {DescMsg(2), SubMsg(2)}

\* C5: with two <task> blocks, the second without <sub_problem>, the call
\* fails whatever the first block is; the message references task 2 when the
\* first block is valid and task 1 when it is not.
C5_SecondBlockFails ==
    (Returned /\ IsString /\ Len(Blocks) = 2 /\ 2 \in InvalidAt
              /\ SubProblemsIn(Blocks[2]) = <<>>) =>
        /\ ~result.success
        /\ ValidBlock(Blocks[1]) =>
              result.error \in {DescMsg(2), SubMsg(2)}
        /\ ~ValidBlock(Blocks[1]) =>
              result.error \in {DescMsg(1), SubMsg(1)}

C5_Witness ==
    /\ Returned /\ IsString /\ Len(Blocks) = 2
    /\ ValidBlock(Blocks[1])
    /\ Descriptions(Blocks[2]) # <<>> /\ SubProblemsIn(Blocks[2]) = <<>>
    /\ result.error = SubMsg(2)

\* C6: in a success result a task's reasoning is "Generated by reflection"
\* when its block has no <reasoning> tag and the trimmed content of the
\* block's first <reasoning> tag otherwise; every sub-problem's reasoning is
\* "Generated by reflection".
C6_Reasoning ==
    (Returned /\ result.success) =>
        /\ Len(result.new_tasks) = Len(Blocks)
        /\ \A i \in 1..Len(result.new_tasks) : i <= Len(Blocks) =>
              LET task == result.new_tasks[i]
                  rs   == Reasonings(Blocks[i])
              IN  /\ rs = <<>> => task.reasoning = Placeholder
                  /\ rs # <<>> => IsStripOf(task.reasoning, rs[1])
                  /\ \A j \in 1..Len(task.sub_problems) :
                        task.sub_problems[j].reasoning = Placeholder

C6_Witness ==
    /\ Returned /\ result.success
    /\ Len(Blocks) = 1
    /\ Len(Reasonings(Blocks[1])) = 2
    /\ result.new_tasks[1].reasoning = <<"b">>
    /\ ~IsStripOf(result.new_tasks[1].reasoning, Reasonings(Blocks[1])[2])
    /\ result.new_tasks[1].sub_problems[1].reasoning = Placeholder

\* C7: in a success result all ids, of task records and sub-problem records
\* together, are pairwise distinct, whatever Date.now returned.
C7_DistinctIds ==
    (Returned /\ result.success) =>
        LET ids == AllIds(result.new_tasks)
        IN  \A p, q \in 1..Len(ids) : p # q => ids[p] # ids[q]

C7_Witness ==
    /\ Returned /\ result.success
    /\ Len(result.new_tasks) = 2
    /\ result.new_tasks[1].id = TaskId(1, 0)
    /\ result.new_tasks[2].id = TaskId(0, 1)
    /\ result.new_tasks[1].sub_problems[1].id = SubId(0, 0, 0)
    /\ result.new_tasks[2].sub_problems[1].id = SubId(0, 1, 0)

\* C8: in a success result tasks_count is the length of new_tasks, which is
\* at least 1, and every task record has at least one sub-problem record and
\* a description taken from a <description> tag of its block.
C8_SuccessShape ==
    (Returned /\ result.success) =>
        /\ result.tasks_count = Len(result.new_tasks)
        /\ Len(result.new_tasks) >= 1
        /\ Len(result.new_tasks) <= Len(Blocks)
        /\ \A i \in 1..Len(result.new_tasks) : i <= Len(Blocks) =>
              /\ Len(result.new_tasks[i].sub_problems) >= 1
              /\ Descriptions(Blocks[i]) # <<>>
              /\ \E d \in 1..Len(Descriptions(Blocks[i])) :
                    IsStripOf(result.new_tasks[i].description,
                              Descriptions(Blocks[i])[d])

C8_Witness ==
    /\ Returned /\ result.success
    /\ result.tasks_count = 2
    /\ Len(Blocks) = 2

\* C9: in a success result every task description, every reasoning taken
\* from the input and every sub-problem description has no leading and no
\* trailing whitespace and is the captured content with only its surrounding
\* whitespace removed; a content of only whitespace gives the empty string.
C9_Trimmed ==
    (Returned /\ result.success) =>
        \A i \in 1..Len(result.new_tasks) : i <= Len(Blocks) =>
            LET task == result.new_tasks[i]
                b    == Blocks[i]
            IN  /\ Descriptions(b) # <<>>
                /\ IsStripOf(task.description, Descriptions(b)[1])
                /\ IsWhite(Descriptions(b)[1]) => task.description = <<>>
                /\ Reasonings(b) # <<>> =>
                      IsStripOf(task.reasoning, Reasonings(b)[1])
                /\ Len(task.sub_problems) = Len(SubProblemsIn(b))
                /\ \A j \in 1..Len(task.sub_problems) :
                      j <= Len(SubProblemsIn(b)) =>
                        IsStripOf(task.sub_problems[j].description,
                                  SubProblemsIn(b)[j])

C9_Witness ==
    /\ Returned /\ result.success
    /\ \E i \in 1..Len(result.new_tasks) :
          /\ i <= Len(Blocks)
          /\ Descriptions(Blocks[i])[1] = <<"\n", "\t">>
          /\ result.new_tasks[i].description = <<>>
          /\ \E j \in 1..Len(result.new_tasks[i].sub_problems) :
                /\ SubProblemsIn(Blocks[i])[j] = <<"a", " ", "b", "\n">>
                /\ result.new_tasks[i].sub_problems[j].description
                      = <<"a", " ", "b">>

\* C10: when a string payload has an invalid matched <task> block, the
\* failure message names the 1-based position of the first invalid block,
\* no block after it is examined, and a block lacking both <description> and
\* <sub_problem> gets the missing-description message.
C10_FirstInvalidBlock ==
    (Returned /\ IsString) =>
        LET bs == Blocks
        IN  \A n \in 1..Len(bs) : FirstInvalid(bs, n) =>
                /\ ~result.success
                /\ result.error = IF Descriptions(bs[n]) = <<>>
                                  THEN DescMsg(n) ELSE SubMsg(n)
                /\ examined = n
                /\ taskIndex = n - 1
                /\ Len(newTasks) = n - 1

C10_Witness ==
    /\ Returned /\ IsString
    /\ Len(Blocks) = 2
    /\ Descriptions(Blocks[1]) = <<>> /\ SubProblemsIn(Blocks[1]) = <<>>
    /\ ValidBlock(Blocks[2])
    /\ result.error = DescMsg(1)
    /\ examined = 1

====
